---------------------------- MODULE Spec2Model ----------------------------
(***************************************************************************)
(* ExpenseRule: categorization resolver (categorization.py), correction    *)
(* memory and expense tables (database.py), the expenses router            *)
(* (routers/expenses.py) and the receipt upload pipeline                   *)
(* (routers/upload.py, llm.py).                                            *)
(*                                                                         *)
(* Strings are sequences of one-character strings, so that str.strip(),    *)
(* str.lower(), `in` (substring) and == are computed, not assumed.         *)
(***************************************************************************)
EXTENDS Integers, Sequences, FiniteSets, TLC

VARIABLES
    corrections,  \* table correction_memory: set of rows [merchant, category]
    expenses,     \* table expenses: sequence of rows, index = id
    uploads,      \* files present in UPLOADS_DIR (set of upload ids)
    lastUpsert,   \* history: per stored key, the arguments of the latest upsert_correction
    resp,         \* the last completed call: its arguments and its outcome
    up,           \* the parse_upload request in progress, and the upload ids issued so far
    reqs          \* api_update_category requests received, each with its position in the handler

vars == <<corrections, expenses, uploads, lastUpsert, resp, up, reqs>>

-----------------------------------------------------------------------------
(* Bounds *)

MaxLen == 2          \* longest merchant string
MaxExpenses == 2     \* rows in the expenses table
MaxUploads == 2      \* uploads accepted in one behaviour
MaxSide == 4098      \* longest side of a decoded image, in pixels
MaxRequests == 2     \* api_update_category requests in flight in one behaviour

-----------------------------------------------------------------------------
(* Strings *)

Chars == {"a", "A", "b", "c", " "}

Whitespace == {" ", "\t", "\n"}

UpperCase == <<"A", "B", "C", "E", "M", "O", "S", "T">>
LowerCase == <<"a", "b", "c", "e", "m", "o", "s", "t">>

LowerChar(ch) ==
    IF \E i \in 1..Len(UpperCase) : UpperCase[i] = ch
    THEN LowerCase[CHOOSE i \in 1..Len(UpperCase) : UpperCase[i] = ch]
    ELSE ch

\* str.lower()
Lower(s) == [i \in 1..Len(s) |-> LowerChar(s[i])]

RECURSIVE LStrip(_)
LStrip(s) == IF s # <<>> /\ Head(s) \in Whitespace THEN LStrip(Tail(s)) ELSE s

RECURSIVE RStrip(_)
RStrip(s) ==
    IF s # <<>> /\ s[Len(s)] \in Whitespace THEN RStrip(SubSeq(s, 1, Len(s) - 1)) ELSE s

\* str.strip()
Strip(s) == RStrip(LStrip(s))

\* Python's  k in s  on strings
IsSubstring(k, s) ==
    \E i \in 0..(Len(s) - Len(k)) : SubSeq(s, i + 1, i + Len(k)) = k

RECURSIVE StringsUpTo(_)
StringsUpTo(n) ==
    IF n = 0 THEN {<<>>}
    ELSE LET shorter == StringsUpTo(n - 1)
         IN  shorter \cup {Append(s, ch) : s \in {t \in shorter : Len(t) = n - 1}, ch \in Chars}

Merchants == StringsUpTo(MaxLen)

-----------------------------------------------------------------------------
(* categories.py: the catalog and the merchant lookup table *)

Meals == <<"M", "e", "a", "l", "s">>
Supplies == <<"S", "u", "p", "p", "l", "i", "e", "s">>
Travel == <<"T", "r", "a", "v", "e", "l">>
OtherExpenses == <<"O", "t", "h", "e", "r", " ", "E", "x", "p", "e", "n", "s", "e", "s">>

SCHEDULE_C_CATEGORIES ==
    << [name |-> Meals,         line |-> "24b"],
       [name |-> Supplies,      line |-> "22"],
       [name |-> Travel,        line |-> "24a"],
       [name |-> OtherExpenses, line |-> "27a"] >>

_CATEGORY_NAMES == {SCHEDULE_C_CATEGORIES[i].name : i \in 1..Len(SCHEDULE_C_CATEGORIES)}

\* dict name -> line; DOMAIN CATEGORY_LINE is the closed category set
CATEGORY_LINE ==
    [n \in _CATEGORY_NAMES |->
        SCHEDULE_C_CATEGORIES[CHOOSE i \in 1..Len(SCHEDULE_C_CATEGORIES) :
                                  SCHEDULE_C_CATEGORIES[i].name = n].line]

\* dict in declaration order: lowercase key -> category
MERCHANT_LOOKUP ==
    << [key |-> <<"a">>,      category |-> Travel],
       [key |-> <<"a", "b">>, category |-> Meals],
       [key |-> <<"b">>,      category |-> Supplies] >>

\* a category name that is not in the catalog
Bogus == <<"B", "o", "g", "u", "s">>


-----------------------------------------------------------------------------
(* Optional values and call outcomes *)

None == [isNone |-> TRUE]
Some(v) == [isNone |-> FALSE, v |-> v]

\* what one call of the chat-completions API can produce for _llm_suggest
RemoteTexts ==
    UNION {{n, <<" ">> \o n \o <<"\n">>, Lower(n), n \o <<".">>} : n \in {Meals, OtherExpenses}}
        \cup {<<>>, <<" ">>, Bogus}

RemoteOutcomes ==
    {[kind |-> "raise"], [kind |-> "null"]}
        \cup {[kind |-> "content", text |-> t] : t \in RemoteTexts}

Unused == [kind |-> "unused"]

-----------------------------------------------------------------------------
(* database.py: correction memory *)

\* the key both helpers bind to the SQL parameter: merchant.lower()
CorrectionKey(merchant) == Lower(merchant)

\* variant: the query binds merchant instead of merchant.lower()
get_correction_raw(rows, merchant) ==
    LET found == {r \in rows : r.merchant = merchant}
    IN  IF found = {} THEN None ELSE Some((CHOOSE r \in found : TRUE).category)

get_correction(rows, merchant) ==
    LET found == {r \in rows : r.merchant = CorrectionKey(merchant)}
    IN  IF found = {} THEN None ELSE Some((CHOOSE r \in found : TRUE).category)

\* variant: INSERT ... ON CONFLICT(merchant) DO NOTHING
upsert_correction_keep(rows, merchant, category) ==
    IF \E r \in rows : r.merchant = CorrectionKey(merchant) THEN rows
    ELSE rows \cup {[merchant |-> CorrectionKey(merchant), category |-> category]}

\* INSERT ... ON CONFLICT(merchant) DO UPDATE SET category = excluded.category
upsert_correction(rows, merchant, category) ==
    {r \in rows : r.merchant # CorrectionKey(merchant)}
        \cup {[merchant |-> CorrectionKey(merchant), category |-> category]}

-----------------------------------------------------------------------------
(* categorization.py *)

_normalize(merchant) == Lower(Strip(merchant))

RECURSIVE ScanLookup(_, _)
ScanLookup(key, i) ==
    IF i > Len(MERCHANT_LOOKUP) THEN None
    ELSE IF IsSubstring(MERCHANT_LOOKUP[i].key, key) THEN Some(MERCHANT_LOOKUP[i].category)
    ELSE ScanLookup(key, i + 1)

\* variant: the substring scan alone, without the exact-match test before it
_lookup_table_scan(merchant) == ScanLookup(_normalize(merchant), 1)

\* variant: the exact-match test alone, without the substring scan after it
_lookup_table_exact(merchant) ==
    LET key == _normalize(merchant)
        exact == {i \in 1..Len(MERCHANT_LOOKUP) : MERCHANT_LOOKUP[i].key = key}
    IN  IF exact # {} THEN Some(MERCHANT_LOOKUP[CHOOSE i \in exact : TRUE].category)
        ELSE None

_lookup_table(merchant) ==
    LET key == _normalize(merchant)
        exact == {i \in 1..Len(MERCHANT_LOOKUP) : MERCHANT_LOOKUP[i].key = key}
    IN  IF exact # {} THEN Some(MERCHANT_LOOKUP[CHOOSE i \in exact : TRUE].category)
        ELSE ScanLookup(key, 1)

\* variant: message.content compared without .strip()
_llm_suggest_nostrip(remote) ==
    IF remote.kind # "content" THEN [raised |-> TRUE]
    ELSE [raised |-> FALSE,
          category |-> IF remote.text \in _CATEGORY_NAMES THEN remote.text
                       ELSE OtherExpenses]

\* the outcome of _llm_suggest for what the API call produced: the call raising, or
\* message.content being None (None.strip() raises), leaves _llm_suggest by exception
_llm_suggest(remote) ==
    IF remote.kind # "content" THEN [raised |-> TRUE]
    ELSE LET suggestion == Strip(remote.text)
         IN  [raised |-> FALSE,
              category |-> IF suggestion \in _CATEGORY_NAMES THEN suggestion
                           ELSE OtherExpenses]

suggest_category(rows, merchant, remote) ==
    LET remembered == get_correction(rows, merchant)
        from_table == _lookup_table(merchant)
        llm        == _llm_suggest(remote)
    IN  IF ~remembered.isNone /\ remembered.v # <<>> /\ remembered.v \in DOMAIN CATEGORY_LINE
        THEN [raised |-> FALSE, category |-> remembered.v,
              schedule_c_line |-> CATEGORY_LINE[remembered.v],
              source |-> "correction_memory", llmCalls |-> 0]
        ELSE IF ~from_table.isNone /\ from_table.v # <<>>
        THEN IF from_table.v \in DOMAIN CATEGORY_LINE
             THEN [raised |-> FALSE, category |-> from_table.v,
                   schedule_c_line |-> CATEGORY_LINE[from_table.v],
                   source |-> "lookup", llmCalls |-> 0]
             ELSE [raised |-> TRUE, llmCalls |-> 0]
        ELSE IF llm.raised THEN [raised |-> TRUE, llmCalls |-> 1]
        ELSE [raised |-> FALSE, category |-> llm.category,
              schedule_c_line |-> IF llm.category \in DOMAIN CATEGORY_LINE
                                  THEN CATEGORY_LINE[llm.category] ELSE "27a",
              source |-> "llm", llmCalls |-> 1]

-----------------------------------------------------------------------------
(* Initial state: init_db() on an empty data directory *)

NoCall == [op |-> "none"]
Idle == [pc |-> "idle", issued |-> 0]

Init ==
    /\ corrections = {}
    /\ expenses = <<>>
    /\ uploads = {}
    /\ lastUpsert = {}
    /\ resp = NoCall
    /\ up = Idle
    /\ reqs = <<>>

\* the caller has taken the previous call's outcome; calls are made one after another
Ready == resp = NoCall /\ up.pc = "idle"

\* the caller takes the outcome of the call that just returned
Return ==
    /\ resp # NoCall
    /\ resp' = NoCall
    /\ UNCHANGED <<corrections, expenses, uploads, lastUpsert, up, reqs>>

-----------------------------------------------------------------------------
(* Calls on the correction memory and the resolver *)

\* history of upsert_correction calls: the latest call per stored key
RecordUpsert(hist, merchant, category) ==
    {h \in hist : h.key # Lower(merchant)}
        \cup {[key |-> Lower(merchant), merchant |-> merchant, category |-> category]}

\* the outcomes the remote service can present to one suggest_category call: one per
\* outcome when the call consults the service, a single placeholder when it does not
RemoteFor(rows, merchant) ==
    IF suggest_category(rows, merchant, [kind |-> "raise"]).llmCalls = 0
    THEN {Unused} ELSE RemoteOutcomes

\* the merchants and categories passed to upsert_correction: case and whitespace
\* variants of one name, names the lookup table knows and one it does not; catalog
\* categories and one that is not in the catalog
StoreMerchants == {<<"a">>, <<"A">>, <<" ", "a">>, <<"A", "b">>, <<"c">>}
StoreCategories == {Meals, Travel, Bogus}

UpsertCorrection(merchant, category) ==
    /\ Ready
    /\ corrections' = upsert_correction(corrections, merchant, category)
    /\ lastUpsert' = RecordUpsert(lastUpsert, merchant, category)
    /\ resp' = [op |-> "upsert_correction", merchant |-> merchant, category |-> category]
    /\ UNCHANGED <<expenses, uploads, up, reqs>>

\* variant: an answer of the remote tier is remembered as a correction
SuggestCategory_learn(merchant) ==
    /\ Ready
    /\ \E remote \in RemoteFor(corrections, merchant) :
          LET result == suggest_category(corrections, merchant, remote)
          IN  /\ resp' = [op |-> "suggest_category", merchant |-> merchant,
                          remote |-> remote, result |-> result]
              /\ corrections' = IF ~result.raised /\ result.source = "llm"
                                THEN upsert_correction(corrections, merchant, result.category)
                                ELSE corrections
    /\ UNCHANGED <<expenses, uploads, lastUpsert, up, reqs>>

SuggestCategory(merchant) ==
    /\ Ready
    /\ \E remote \in RemoteFor(corrections, merchant) :
          resp' = [op |-> "suggest_category", merchant |-> merchant, remote |-> remote,
                   result |-> suggest_category(corrections, merchant, remote)]
    /\ UNCHANGED <<corrections, expenses, uploads, lastUpsert, up, reqs>>

NextStore ==
    \/ \E m \in StoreMerchants, c \in StoreCategories : UpsertCorrection(m, c)
    \/ \E m \in Merchants : SuggestCategory(m)
    \/ Return

SpecStore == Init /\ [][NextStore]_vars

-----------------------------------------------------------------------------
(* database.py: expenses.  A row keeps the columns the handlers below read or    *)
(* write back (merchant, category, schedule_c_line); date, amount, notes and     *)
(* created_at are stored and never read by them.                                 *)

\* INSERT INTO expenses ...; lastrowid is the new row's position
save_expense(rows, merchant, category, schedule_c_line) ==
    Append(rows, [merchant |-> merchant, category |-> category,
                  schedule_c_line |-> schedule_c_line])

\* UPDATE expenses SET category = ?, schedule_c_line = ? WHERE id = ?; rowcount > 0
update_expense_category(rows, expense_id, category, schedule_c_line) ==
    IF expense_id \in DOMAIN rows
    THEN [updated |-> TRUE,
          rows |-> [rows EXCEPT ![expense_id].category = category,
                                ![expense_id].schedule_c_line = schedule_c_line]]
    ELSE [updated |-> FALSE, rows |-> rows]

-----------------------------------------------------------------------------
(* routers/expenses.py: each handler maps the tables and its request to a status *)
(* and the tables it leaves behind                                               *)

Reply(status, exp, corr) == [status |-> status, expenses |-> exp, corrections |-> corr]

save_expense_form(exp, corr, merchant, category) ==
    IF category \notin DOMAIN CATEGORY_LINE THEN Reply(422, exp, corr)
    ELSE Reply(303, save_expense(exp, merchant, category, CATEGORY_LINE[category]), corr)

\* variant: the row is written without the catalog test
api_save_expense_unchecked(exp, corr, merchant, category) ==
    IF Len(merchant) < 1 \/ Len(category) < 1 THEN Reply(422, exp, corr)
    ELSE Reply(201, save_expense(exp, merchant, category,
                                 IF category \in DOMAIN CATEGORY_LINE
                                 THEN CATEGORY_LINE[category] ELSE "27a"), corr)

\* SaveExpenseRequest (min_length = 1 on merchant and category), then the handler
api_save_expense(exp, corr, merchant, category) ==
    IF Len(merchant) < 1 \/ Len(category) < 1 THEN Reply(422, exp, corr)
    ELSE IF category \notin DOMAIN CATEGORY_LINE THEN Reply(422, exp, corr)
    ELSE Reply(201, save_expense(exp, merchant, category, CATEGORY_LINE[category]), corr)

\* UpdateCategoryRequest (min_length = 1 on category), then the handler
api_update_category(exp, corr, expense_id, category, remember) ==
    IF Len(category) < 1 THEN Reply(422, exp, corr)
    ELSE IF category \notin DOMAIN CATEGORY_LINE THEN Reply(422, exp, corr)
    ELSE LET upd == update_expense_category(exp, expense_id, category, CATEGORY_LINE[category])
         IN  IF ~upd.updated THEN Reply(404, exp, corr)
             ELSE IF remember /\ expense_id \in DOMAIN upd.rows
             THEN Reply(200, upd.rows,
                        upsert_correction(corr, upd.rows[expense_id].merchant, category))
             ELSE Reply(200, upd.rows, corr)

\* an exception leaving suggest_category is answered 500 by the framework
api_categorize(corr, merchant, remote) ==
    IF Strip(merchant) = <<>> THEN [status |-> 422]
    ELSE LET result == suggest_category(corr, merchant, remote)
         IN  IF result.raised THEN [status |-> 500, result |-> result]
             ELSE [status |-> 200, result |-> result]

-----------------------------------------------------------------------------
(* Requests to the expenses router *)

\* merchants and categories sent by the forms and API clients
FormMerchants == {<<"A", "b">>, <<"c", " ">>}
CategorizeMerchants == FormMerchants \cup {<<>>, <<" ">>, <<"b", "a">>, <<"c">>}
FormCategories == _CATEGORY_NAMES \cup {Bogus, Lower(Meals), <<>>}

SaveExpenseForm(merchant, category) ==
    LET r == save_expense_form(expenses, corrections, merchant, category)
    IN  /\ Ready
        /\ Len(r.expenses) <= MaxExpenses
        /\ expenses' = r.expenses
        /\ corrections' = r.corrections
        /\ resp' = [op |-> "save_expense_form", merchant |-> merchant,
                    category |-> category, status |-> r.status]
        /\ UNCHANGED <<uploads, lastUpsert, up, reqs>>

ApiSaveExpense(merchant, category) ==
    LET r == api_save_expense(expenses, corrections, merchant, category)
    IN  /\ Ready
        /\ Len(r.expenses) <= MaxExpenses
        /\ expenses' = r.expenses
        /\ corrections' = r.corrections
        /\ resp' = [op |-> "api_save_expense", merchant |-> merchant,
                    category |-> category, status |-> r.status]
        /\ UNCHANGED <<uploads, lastUpsert, up, reqs>>

ApiUpdateCategory(expense_id, category, remember) ==
    LET r == api_update_category(expenses, corrections, expense_id, category, remember)
    IN  /\ Ready
        /\ expenses' = r.expenses
        /\ corrections' = r.corrections
        /\ lastUpsert' = IF r.status = 200 /\ remember
                         THEN RecordUpsert(lastUpsert, expenses[expense_id].merchant, category)
                         ELSE lastUpsert
        /\ resp' = [op |-> "api_update_category", expense_id |-> expense_id,
                    category |-> category, remember |-> remember, status |-> r.status]
        /\ UNCHANGED <<uploads, up, reqs>>

ApiCategorize(merchant) ==
    /\ Ready
    /\ \E remote \in RemoteFor(corrections, merchant) :
          LET r == api_categorize(corrections, merchant, remote)
          IN  resp' = IF r.status = 422
                      THEN [op |-> "api_categorize", merchant |-> merchant, status |-> 422]
                      ELSE [op |-> "api_categorize", merchant |-> merchant,
                            remote |-> remote, status |-> r.status, result |-> r.result]
    /\ UNCHANGED <<corrections, expenses, uploads, lastUpsert, up, reqs>>

Next ==
    \/ \E m \in FormMerchants, c \in FormCategories : SaveExpenseForm(m, c)
    \/ \E m \in FormMerchants \cup {<<>>}, c \in FormCategories : ApiSaveExpense(m, c)
    \/ \E id \in 1..(MaxExpenses + 1), c \in FormCategories, remember \in BOOLEAN :
          ApiUpdateCategory(id, c, remember)
    \/ \E m \in CategorizeMerchants : ApiCategorize(m)
    \/ Return

Spec == Init /\ [][Next]_vars

-----------------------------------------------------------------------------
(* llm.py: normalization and field extraction *)

\* an uploaded file, by what the pipeline tests: its declared type, its length, whether
\* Pillow / pdf2image can decode it, and how many pages a PDF rasterizes to
ALLOWED_CONTENT_TYPES == {"image/jpeg", "image/png", "application/pdf"}
MAX_UPLOAD_BYTES == 20 * 1024 * 1024

Files ==
    [content_type : ALLOWED_CONTENT_TYPES \cup {"text/plain"},
     size : {1, MAX_UPLOAD_BYTES, MAX_UPLOAD_BYTES + 1},
     decodable : BOOLEAN,
     pages : {0, 1}]

\* TRUE when preprocess_file raises: convert_from_bytes / Image.open reject the bytes,
\* or the PDF has no page
preprocess_file_raises(file) ==
    IF file.content_type = "application/pdf"
    THEN ~file.decodable \/ file.pages = 0
    ELSE ~file.decodable

(* A response of the vision model is a sequence of lines; a line is a code fence   *)
(* (``` followed by a language tag, or bare), a line of prose, or a JSON document. *)
Fence(lang) == [t |-> "fence", lang |-> lang]
Prose == [t |-> "text"]
Doc(v) == [t |-> "json", v |-> v]

JNull == [ty |-> "null"]
JNum(n) == [ty |-> "number", n |-> n]
JStr(s) == [ty |-> "string", s |-> s]
JBool(b) == [ty |-> "bool", b |-> b]
JArray == [ty |-> "array"]
JObj(fields) == [ty |-> "object", fields |-> fields]

Digits == <<"0", "1", "2", "3", "4", "5", "6", "7", "8", "9">>
IsDigit(ch) == \E i \in 1..10 : Digits[i] = ch
DigitValue(ch) == (CHOOSE i \in 1..10 : Digits[i] = ch) - 1

RECURSIVE Numeral(_)
Numeral(s) == IF s = <<>> THEN 0 ELSE 10 * Numeral(SubSeq(s, 1, Len(s) - 1)) + DigitValue(s[Len(s)])

\* float(x) for a JSON value: numbers and booleans convert, a string converts when,
\* trimmed, it is a numeral; anything else raises ValueError / TypeError
Float(v) ==
    IF v.ty = "number" THEN Some(v.n)
    ELSE IF v.ty = "bool" THEN Some(IF v.b THEN 1 ELSE 0)
    ELSE IF v.ty = "string"
    THEN LET t == Strip(v.s)
         IN  IF t # <<>> /\ \A i \in 1..Len(t) : IsDigit(t[i]) THEN Some(Numeral(t)) ELSE None
    ELSE None

\* raw.startswith("```"), then lines[1:-1] if the last line is a bare fence else lines[1:]
strip_fences(lines) ==
    IF lines # <<>> /\ lines[1].t = "fence"
    THEN IF lines[Len(lines)] = Fence("")
         THEN SubSeq(lines, 2, Len(lines) - 1)
         ELSE SubSeq(lines, 2, Len(lines))
    ELSE lines

\* json.loads: the text must be one JSON document and nothing else
json_loads(lines) ==
    IF Len(lines) = 1 /\ lines[1].t = "json" THEN Some(lines[1].v) ELSE None

\* dict.get(key): None for a missing key and for a JSON null
Get(fields, key) ==
    IF key \in DOMAIN fields /\ fields[key].ty # "null" THEN Some(fields[key]) ELSE None

\* x or default, for the values a field takes here: "" is falsy
Truthy(opt) == ~opt.isNone /\ ~(opt.v.ty = "string" /\ opt.v.s = <<>>)

Raised == [raised |-> TRUE]

\* variant: parsed["amount"] read without the .get() test before it
parse_receipt_strict(vision) ==
    IF vision.kind # "content" THEN Raised
    ELSE LET parsed == json_loads(strip_fences(vision.lines))
         IN  IF parsed.isNone THEN Raised
             ELSE IF parsed.v.ty # "object" THEN Raised
             ELSE LET merchant == Get(parsed.v.fields, "merchant")
                      date     == Get(parsed.v.fields, "date")
                  IN  IF "amount" \notin DOMAIN parsed.v.fields THEN Raised
                      ELSE IF Float(parsed.v.fields["amount"]).isNone THEN Raised
                      ELSE [raised |-> FALSE,
                            merchant |-> IF Truthy(merchant) THEN Strip(merchant.v.s) ELSE <<>>,
                            date |-> IF Truthy(date) THEN date ELSE None,
                            amount |-> Float(parsed.v.fields["amount"])]

\* what the API call produced: the call raising, content None (None.strip() raises),
\* or the lines of content.strip()
parse_receipt(vision) ==
    IF vision.kind # "content" THEN Raised
    ELSE LET parsed == json_loads(strip_fences(vision.lines))
         IN  IF parsed.isNone THEN Raised
             ELSE IF parsed.v.ty # "object" THEN Raised
             ELSE LET merchant == Get(parsed.v.fields, "merchant")
                      date     == Get(parsed.v.fields, "date")
                      amount   == Get(parsed.v.fields, "amount")
                  IN  IF ~amount.isNone /\ Float(amount.v).isNone THEN Raised
                      ELSE [raised |-> FALSE,
                            merchant |-> IF Truthy(merchant) THEN Strip(merchant.v.s) ELSE <<>>,
                            date |-> IF Truthy(date) THEN date ELSE None,
                            amount |-> IF amount.isNone THEN None ELSE Float(amount.v)]

-----------------------------------------------------------------------------
(* Responses of the vision model presented to parse_receipt *)

Partial(key, values) == {<<>>} \cup {<<[k |-> key, v |-> x]>> : x \in values}

MerchantValues == {JNull, JStr(<<"A", "b">>), JStr(<<" ", "c">>)}
DateValues == {JNull, JStr(<<"2", "0", "2", "4">>)}
AmountValues == {JNull, JNum(42), JStr(<<"4", "2">>), JStr(<<"$", "4", "2">>), JBool(TRUE), JArray}

FieldsOf(pairs) == [k \in {p.k : p \in pairs} |-> (CHOOSE p \in pairs : p.k = k).v]

Objects ==
    {JObj(FieldsOf({m[i] : i \in DOMAIN m} \cup {d[i] : i \in DOMAIN d} \cup {a[i] : i \in DOMAIN a})) :
        m \in Partial("merchant", MerchantValues),
        d \in Partial("date", DateValues),
        a \in Partial("amount", AmountValues)}

Documents == Objects \cup {JArray, JNum(42)}

VisionOutcomes ==
    {[kind |-> "raise"], [kind |-> "null"]}
        \cup {[kind |-> "content", lines |-> l] :
                l \in {<<>>, <<Prose>>, <<Fence("")>>, <<Fence("json")>>}
                        \cup {<<Doc(v)>> : v \in Documents}
                        \cup {<<Fence("json"), Doc(v), Fence("")>> : v \in Documents}
                        \cup {<<Fence(""), Doc(v)>> : v \in Documents}
                        \cup {<<Prose, Doc(v)>> : v \in Documents}}

-----------------------------------------------------------------------------
(* routers/upload.py: parse_upload, one step per stage *)

Finish(fields) == [op |-> "parse_upload"] @@ fields

\* validation, then stored_path.write_bytes(raw_bytes) under a fresh uuid
ReceiveUpload(file) ==
    /\ Ready
    /\ IF file.content_type \notin ALLOWED_CONTENT_TYPES
       THEN /\ resp' = Finish([status |-> 415, stage |-> "validate"])
            /\ UNCHANGED <<uploads, up>>
       ELSE IF file.size > MAX_UPLOAD_BYTES
       THEN /\ resp' = Finish([status |-> 413, stage |-> "validate"])
            /\ UNCHANGED <<uploads, up>>
       ELSE /\ up.issued < MaxUploads
            /\ uploads' = uploads \cup {up.issued + 1}
            /\ up' = [pc |-> "stored", issued |-> up.issued + 1,
                      upload_id |-> up.issued + 1, file |-> file]
            /\ UNCHANGED resp
    /\ UNCHANGED <<corrections, expenses, lastUpsert, reqs>>

\* variant: the stored file is kept when preprocess_file raises
PreprocessStep_keep ==
    /\ up.pc = "stored"
    /\ IF preprocess_file_raises(up.file)
       THEN /\ resp' = Finish([status |-> 422, stage |-> "normalize", upload_id |-> up.upload_id])
            /\ up' = [pc |-> "idle", issued |-> up.issued]
       ELSE /\ up' = [up EXCEPT !.pc = "normalized"]
            /\ UNCHANGED resp
    /\ UNCHANGED <<corrections, expenses, lastUpsert, uploads, reqs>>

\* preprocess_file; on an exception stored_path.unlink(missing_ok=True) and 422
PreprocessStep ==
    /\ up.pc = "stored"
    /\ IF preprocess_file_raises(up.file)
       THEN /\ uploads' = uploads \ {up.upload_id}
            /\ resp' = Finish([status |-> 422, stage |-> "normalize", upload_id |-> up.upload_id])
            /\ up' = [pc |-> "idle", issued |-> up.issued]
       ELSE /\ up' = [up EXCEPT !.pc = "normalized"]
            /\ UNCHANGED <<uploads, resp>>
    /\ UNCHANGED <<corrections, expenses, lastUpsert, reqs>>

\* variant: a response that parse_receipt rejects is replaced by empty fields
ExtractStep_default ==
    /\ up.pc = "normalized"
    /\ \E vision \in VisionOutcomes :
          LET extracted == parse_receipt(vision)
          IN  /\ up' = [pc |-> "extracted", issued |-> up.issued,
                        upload_id |-> up.upload_id, vision |-> vision,
                        extracted |-> IF extracted.raised
                                      THEN [raised |-> FALSE, merchant |-> <<>>,
                                            date |-> None, amount |-> None]
                                      ELSE extracted]
              /\ UNCHANGED resp
    /\ UNCHANGED <<corrections, expenses, lastUpsert, uploads, reqs>>

\* parse_receipt; on an exception 502
ExtractStep ==
    /\ up.pc = "normalized"
    /\ \E vision \in VisionOutcomes :
          LET extracted == parse_receipt(vision)
          IN  IF extracted.raised
              THEN /\ resp' = Finish([status |-> 502, stage |-> "extract",
                                      upload_id |-> up.upload_id, vision |-> vision])
                   /\ up' = [pc |-> "idle", issued |-> up.issued]
              ELSE /\ up' = [pc |-> "extracted", issued |-> up.issued,
                             upload_id |-> up.upload_id, vision |-> vision,
                             extracted |-> extracted]
                   /\ UNCHANGED resp
    /\ UNCHANGED <<corrections, expenses, lastUpsert, uploads, reqs>>

\* suggest_category(extracted["merchant"]) and the JSON reply; an exception leaving
\* suggest_category is answered 500 by the framework
CategorizeStep ==
    /\ up.pc = "extracted"
    /\ \E remote \in RemoteFor(corrections, up.extracted.merchant) :
          LET categorization == suggest_category(corrections, up.extracted.merchant, remote)
          IN  resp' = IF categorization.raised
                      THEN Finish([status |-> 500, stage |-> "categorize",
                                   upload_id |-> up.upload_id, vision |-> up.vision])
                      ELSE Finish([status |-> 200, stage |-> "done",
                                   upload_id |-> up.upload_id, vision |-> up.vision,
                                   merchant |-> up.extracted.merchant,
                                   date |-> up.extracted.date,
                                   amount |-> up.extracted.amount,
                                   category |-> categorization.category,
                                   schedule_c_line |-> categorization.schedule_c_line,
                                   category_source |-> categorization.source])
    /\ up' = [pc |-> "idle", issued |-> up.issued]
    /\ UNCHANGED <<corrections, expenses, lastUpsert, uploads, reqs>>

NextUpload ==
    \/ \E file \in Files : ReceiveUpload(file)
    \/ PreprocessStep
    \/ ExtractStep
    \/ CategorizeStep
    \/ Return

SpecUpload == Init /\ [][NextUpload]_vars

-----------------------------------------------------------------------------
(* Properties of the resolver and the correction memory (SpecStore) *)

Suggested == resp.op = "suggest_category"

\* the rows of correction_memory stored under the key of merchant
RowsFor(merchant) == {r \in corrections : r.merchant = Lower(merchant)}

UsableCorrection(merchant) ==
    \E r \in RowsFor(merchant) : r.category \in _CATEGORY_NAMES

NormalizedMerchant(merchant) == Lower(Strip(merchant))

ExactKeys(merchant) ==
    {i \in 1..Len(MERCHANT_LOOKUP) : MERCHANT_LOOKUP[i].key = NormalizedMerchant(merchant)}

SubstringKeys(merchant) ==
    {i \in 1..Len(MERCHANT_LOOKUP) :
        IsSubstring(MERCHANT_LOOKUP[i].key, NormalizedMerchant(merchant))}

Earliest(S) == CHOOSE i \in S : \A j \in S : i <= j

Answer(category, source) ==
    /\ ~resp.result.raised
    /\ resp.result.category = category
    /\ resp.result.schedule_c_line = CATEGORY_LINE[category]
    /\ resp.result.source = source

\* C1: a merchant whose key has a correction_memory row with a catalog category gets
\* that category, its catalog line and source correction_memory, whatever the lookup
\* table says; a row whose category is not in the catalog is a miss: the call goes on
\* to the lookup table (and from there to the remote tier)
C1_CorrectionFirst ==
    Suggested =>
        \A r \in RowsFor(resp.merchant) :
            IF r.category \in _CATEGORY_NAMES
            THEN Answer(r.category, "correction_memory")
            ELSE IF SubstringKeys(resp.merchant) # {}
                 THEN ~resp.result.raised /\ resp.result.source = "lookup"
                 ELSE resp.result.llmCalls = 1

C1_Witness ==
    /\ Suggested
    /\ \E r \in RowsFor(resp.merchant) :
          /\ r.category \in _CATEGORY_NAMES
          /\ resp.result.category = r.category
          /\ SubstringKeys(resp.merchant) # {}
          /\ MERCHANT_LOOKUP[Earliest(SubstringKeys(resp.merchant))].category # r.category

\* a row with a category outside the catalog was passed over for the lookup table
C1_WitnessInvalid ==
    /\ Suggested
    /\ \E r \in RowsFor(resp.merchant) : r.category \notin _CATEGORY_NAMES
    /\ ~resp.result.raised
    /\ resp.result.source = "lookup"

\* C2: with no usable correction, a merchant whose trimmed, lowercased form equals a
\* lookup key gets that key's category (before any substring match); otherwise the
\* category of the earliest-declared key that is a substring of it; source lookup
C2_LookupTier ==
    (Suggested /\ ~UsableCorrection(resp.merchant)) =>
        IF ExactKeys(resp.merchant) # {}
        THEN \A i \in ExactKeys(resp.merchant) : Answer(MERCHANT_LOOKUP[i].category, "lookup")
        ELSE SubstringKeys(resp.merchant) # {} =>
                Answer(MERCHANT_LOOKUP[Earliest(SubstringKeys(resp.merchant))].category, "lookup")

\* an exact match on a key declared after another key that is a substring of the merchant
C2_Witness ==
    /\ Suggested /\ ~UsableCorrection(resp.merchant)
    /\ \E i \in ExactKeys(resp.merchant) :
          /\ Earliest(SubstringKeys(resp.merchant)) < i
          /\ resp.result.category = MERCHANT_LOOKUP[i].category
          /\ resp.merchant # MERCHANT_LOOKUP[i].key

\* several keys are substrings of the merchant and none equals it
C2_WitnessSubstring ==
    /\ Suggested /\ ~UsableCorrection(resp.merchant)
    /\ ExactKeys(resp.merchant) = {}
    /\ Cardinality(SubstringKeys(resp.merchant)) >= 2
    /\ resp.result.source = "lookup"

ReachedRemote == Suggested /\ resp.result.llmCalls = 1

Fallback ==
    /\ ~resp.result.raised
    /\ resp.result.category = OtherExpenses
    /\ resp.result.schedule_c_line = "27a"
    /\ resp.result.source = "llm"

\* C3: whenever the remote tier is reached and the remote call raises or returns no
\* content, empty content or content that is not a category, suggest_category still
\* returns Other Expenses / 27a / llm and raises nothing
C3_NeverFailsHard ==
    (/\ ReachedRemote
     /\ \/ resp.remote.kind # "content"
        \/ Strip(resp.remote.text) \notin _CATEGORY_NAMES)
        => Fallback

\* C4: a returned string is accepted exactly when, trimmed, it equals a catalog name;
\* the result is then that category with its line and source llm; any other string
\* gives Other Expenses / 27a / llm
C4_RemoteValidation ==
    (ReachedRemote /\ resp.remote.kind = "content") =>
        IF \E n \in _CATEGORY_NAMES : Strip(resp.remote.text) = n
        THEN Answer(Strip(resp.remote.text), "llm")
        ELSE Fallback

\* an answer padded with whitespace was accepted
C4_Witness ==
    /\ ReachedRemote /\ resp.remote.kind = "content"
    /\ resp.remote.text # Strip(resp.remote.text)
    /\ resp.result.category = Strip(resp.remote.text)
    /\ resp.result.category # OtherExpenses

\* an answer differing from a name only in case was rejected
C4_WitnessCase ==
    /\ ReachedRemote /\ resp.remote.kind = "content"
    /\ resp.remote.text \notin _CATEGORY_NAMES
    /\ \E n \in _CATEGORY_NAMES : Lower(n) = resp.remote.text
    /\ Fallback

\* C5: one suggest_category call consults the remote classifier exactly once when the
\* merchant has neither a usable correction nor a lookup match, and not at all otherwise
C5_RemoteCalls ==
    Suggested =>
        resp.result.llmCalls =
            IF UsableCorrection(resp.merchant) \/ SubstringKeys(resp.merchant) # {}
            THEN 0 ELSE 1

C5_Witness ==
    /\ Suggested
    /\ ~UsableCorrection(resp.merchant) /\ SubstringKeys(resp.merchant) = {}
    /\ resp.merchant # <<>>
    /\ resp.result.llmCalls = 1

C5_WitnessNoCall ==
    /\ Suggested
    /\ SubstringKeys(resp.merchant) # {}
    /\ resp.result.llmCalls = 0

\* C6: if the latest upsert_correction for the key of m was upsert_correction(m, c) with c
\* in the catalog, suggest_category(m) returns c with source correction_memory; and
\* correction_memory never holds two rows with one key
C6_LastWriteWins ==
    /\ \A r1, r2 \in corrections : r1.merchant = r2.merchant => r1 = r2
    /\ \A h \in lastUpsert : [merchant |-> h.key, category |-> h.category] \in corrections
    /\ Suggested =>
          \A h \in lastUpsert :
              (h.merchant = resp.merchant /\ h.category \in _CATEGORY_NAMES)
                  => Answer(h.category, "correction_memory")

\* a suggestion for the merchant of the latest upsert, which the lookup table would
\* have sent to the remote tier
C6_Witness ==
    /\ Suggested
    /\ ~resp.result.raised
    /\ resp.result.source = "correction_memory"
    /\ \E h \in lastUpsert :
          /\ h.merchant = resp.merchant
          /\ h.category \in _CATEGORY_NAMES
          /\ resp.result.category = h.category
    /\ SubstringKeys(resp.merchant) = {}

\* C7: every stored key is the trimmed, lowercased form of the merchant passed to
\* upsert_correction, and a suggestion for any merchant with the same trimmed,
\* lowercased form as the upserted one returns the upserted category
C7_KeyNormalized ==
    /\ \A h \in lastUpsert :
          \E r \in corrections : r.merchant = NormalizedMerchant(h.merchant)
    /\ \A r \in corrections : r.merchant = NormalizedMerchant(r.merchant)
    /\ Suggested =>
          \A h \in lastUpsert :
              (/\ NormalizedMerchant(h.merchant) = NormalizedMerchant(resp.merchant)
               /\ h.category \in _CATEGORY_NAMES
               /\ \A g \in lastUpsert :
                     NormalizedMerchant(g.merchant) = NormalizedMerchant(h.merchant) => g = h)
                  => Answer(h.category, "correction_memory")

-----------------------------------------------------------------------------
(* Properties of the expenses router (Spec) *)

Writes == {"save_expense_form", "api_save_expense", "api_update_category"}

\* C8: every category in an expense row, in correction_memory and in a suggestion
\* returned by the categorize endpoint is a catalog name, and a save or update request
\* naming a category outside the catalog is answered 422
C8_ClosedCategorySet ==
    /\ \A i \in DOMAIN expenses :
          /\ expenses[i].category \in _CATEGORY_NAMES
          /\ expenses[i].schedule_c_line = CATEGORY_LINE[expenses[i].category]
    /\ \A r \in corrections : r.category \in _CATEGORY_NAMES
    /\ (resp.op = "api_categorize" /\ resp.status = 200)
          => resp.result.category \in _CATEGORY_NAMES
    /\ (resp.op \in Writes /\ resp.category \notin _CATEGORY_NAMES) => resp.status = 422

\* an update that was remembered, after requests with unknown categories were refused
C8_Witness ==
    /\ resp.op = "api_update_category" /\ resp.status = 200 /\ resp.remember
    /\ corrections # {}
    /\ \E i \in DOMAIN expenses : expenses[i].category # resp.category

\* the remote tier answered with a name outside the catalog and the fallback was returned
C8_WitnessFallback ==
    /\ resp.op = "api_categorize" /\ resp.status = 200
    /\ resp.remote.kind = "content" /\ Strip(resp.remote.text) \notin _CATEGORY_NAMES
    /\ resp.result.category = OtherExpenses

-----------------------------------------------------------------------------
(* Properties of the upload pipeline (SpecUpload) *)

\* a parse_upload request that got as far as a response of the vision model
Extracted == resp.op = "parse_upload" /\ "vision" \in DOMAIN resp /\ resp.vision.kind = "content"

Payload(vision) == json_loads(strip_fences(vision.lines))

RequiredKeys == {"merchant", "date", "amount"}

NotJson(vision) == Payload(vision).isNone

IsObject(vision) == ~NotJson(vision) /\ Payload(vision).v.ty = "object"

MissingKey(vision) ==
    IsObject(vision) /\ ~(RequiredKeys \subseteq DOMAIN Payload(vision).v.fields)

Field(vision, key) == Payload(vision).v.fields[key]

Has(vision, key) ==
    IsObject(vision) /\ key \in DOMAIN Payload(vision).v.fields /\ Field(vision, key).ty # "null"

Rejectable(vision) ==
    \/ NotJson(vision)
    \/ MissingKey(vision)
    \/ Has(vision, "amount") /\ Field(vision, "amount").ty # "number"

\* C9 as claimed: a response that is not valid JSON, or an object missing one of
\* merchant, date, amount, or with an amount that is not a JSON number, makes
\* parse_receipt raise (it returns no fields) and the upload request fail
C9_ParseFailuresAreHard ==
    /\ up.pc = "extracted" => ~Rejectable(up.vision)
    /\ (Extracted /\ Rejectable(resp.vision)) => resp.status = 502

\* the responses on which parse_receipt raises: not one JSON document, a document that
\* is not an object, or an amount that is present, not null and rejected by float()
HardFailure(vision) ==
    \/ NotJson(vision)
    \/ ~IsObject(vision)
    \/ Has(vision, "amount") /\ Float(Field(vision, "amount")).isNone

\* C9 amended: parse_receipt raises, and the upload is answered 502 with no fields,
\* exactly on those responses; an object missing merchant, date or amount is not an
\* error: the reply carries merchant "" and an absent date or amount, and an amount
\* given as a numeral string or a boolean is converted by float()
C9_ParseFailures ==
    /\ up.pc = "extracted" => ~HardFailure(up.vision)
    /\ Extracted =>
        IF HardFailure(resp.vision)
        THEN resp.status = 502 /\ "merchant" \notin DOMAIN resp
        ELSE /\ resp.status # 502
             /\ resp.status = 200 =>
                   /\ resp.merchant = IF Has(resp.vision, "merchant")
                                      THEN Strip(Field(resp.vision, "merchant").s) ELSE <<>>
                   /\ resp.date.isNone = ~Has(resp.vision, "date")
                   /\ resp.amount.isNone = ~Has(resp.vision, "amount")
                   /\ Has(resp.vision, "amount")
                         => resp.amount.v = IF Field(resp.vision, "amount").ty = "bool" THEN 1
                                            ELSE 42

\* a fenced object without the amount key was extracted, with the amount absent
C9_Witness ==
    /\ Extracted /\ resp.status = 200
    /\ Len(resp.vision.lines) = 3
    /\ MissingKey(resp.vision)
    /\ "amount" \notin DOMAIN Payload(resp.vision).v.fields
    /\ resp.amount.isNone

\* an amount that float() rejects failed the upload
C9_WitnessAmount ==
    /\ Extracted /\ resp.status = 502
    /\ IsObject(resp.vision)
    /\ Has(resp.vision, "amount") /\ Field(resp.vision, "amount").ty = "string"

Accepted == resp.op = "parse_upload" /\ "upload_id" \in DOMAIN resp

\* C10 as claimed: the original is on disk before normalization is attempted and is
\* still there when the request has ended, whatever stage failed
C10_OriginalPreserved ==
    /\ up.pc = "stored" => up.upload_id \in uploads
    /\ Accepted => resp.upload_id \in uploads

\* C10 amended: the original is on disk before normalization is attempted; when the
\* request has ended it is still there if normalization succeeded (also when
\* extraction or categorization failed), and deleted if normalization failed
C10_OriginalKeptUnlessUnreadable ==
    /\ up.pc = "stored" => up.upload_id \in uploads
    /\ up.pc \in {"normalized", "extracted"} => up.upload_id \in uploads
    /\ Accepted => (resp.upload_id \in uploads <=> resp.stage # "normalize")

\* extraction failed on the second upload and both originals are on disk
C10_Witness ==
    /\ Accepted /\ resp.status = 502
    /\ resp.upload_id \in uploads
    /\ Cardinality(uploads) = 2

\* normalization failed and the original is gone
C10_WitnessDeleted ==
    /\ Accepted /\ resp.status = 422
    /\ resp.upload_id \notin uploads

-----------------------------------------------------------------------------
(* C11: ingestion ordering *)

\* the steps one ingest can take: into the next stage, or out of the request
StageMoves ==
    {<<"idle", "stored">>, <<"stored", "normalized">>, <<"normalized", "extracted">>,
     <<"stored", "idle">>, <<"normalized", "idle">>, <<"extracted", "idle">>}

ResultKeys == {"merchant", "date", "amount", "category", "schedule_c_line", "category_source"}

\* the reply of the request that ends in this step
Ended == up.pc # "idle" /\ up'.pc = "idle"

\* the resolver's answers for the extracted merchant against the current store
Resolutions ==
    {suggest_category(corrections, up.extracted.merchant, remote) :
        remote \in RemoteFor(corrections, up.extracted.merchant)}

NormalizeOrdered ==
    up.pc = "stored" =>
        IF preprocess_file_raises(up.file)
        THEN Ended /\ resp'.status = 422 /\ resp'.upload_id = up.upload_id
        ELSE /\ up'.pc = "normalized" /\ up'.upload_id = up.upload_id
             /\ resp' = resp

ExtractOrdered ==
    up.pc = "normalized" =>
        \/ /\ Ended /\ resp'.status = 502 /\ resp'.upload_id = up.upload_id
           /\ parse_receipt(resp'.vision).raised
        \/ /\ up'.pc = "extracted" /\ up'.upload_id = up.upload_id
           /\ ~parse_receipt(up'.vision).raised
           /\ up'.extracted = parse_receipt(up'.vision)
           /\ resp' = resp

ResolveOrdered ==
    up.pc = "extracted" =>
        /\ Ended /\ resp'.upload_id = up.upload_id
        /\ \E r \in Resolutions :
              IF r.raised THEN resp'.status = 500
              ELSE /\ resp'.status = 200
                   /\ resp'.merchant = up.extracted.merchant
                   /\ resp'.date = up.extracted.date
                   /\ resp'.amount = up.extracted.amount
                   /\ resp'.category = r.category
                   /\ resp'.schedule_c_line = r.schedule_c_line
                   /\ resp'.category_source = r.source

\* C11: one ingest runs Normalize, then Extract, then Resolve on the extracted
\* merchant, each stage once and only after the stages before it succeeded; a stage
\* that fails ends the request with the status of that stage alone (422 normalization,
\* 502 extraction, 500 classification) and a reply without any result field, and a
\* 200 reply is given only by the step that leaves Resolve
C11_Ordering ==
    [][ /\ up'.pc # up.pc => <<up.pc, up'.pc>> \in StageMoves
        /\ up.pc # "idle" => up'.pc # up.pc
        /\ NormalizeOrdered
        /\ ExtractOrdered
        /\ ResolveOrdered
        /\ (resp' # resp /\ resp'.op = "parse_upload") =>
              /\ resp'.status = 200 => up.pc = "extracted"
              /\ resp'.status = 422 => up.pc = "stored"
              /\ resp'.status = 502 => up.pc = "normalized"
              /\ resp'.status = 500 => up.pc = "extracted"
              /\ resp'.status # 200 => DOMAIN resp' \cap ResultKeys = {}
      ]_vars

\* all three stages ran and the reply carries the lookup table's answer for the
\* extracted merchant
C11_Witness ==
    /\ resp.op = "parse_upload" /\ resp.status = 200
    /\ resp.merchant = <<"A", "b">>
    /\ resp.category = Meals /\ resp.category_source = "lookup"
    /\ up.pc = "idle"

\* classification failed after a successful extraction: the reply has no result field
C11_WitnessClassification ==
    /\ resp.op = "parse_upload" /\ resp.status = 500
    /\ ~parse_receipt(resp.vision).raised
    /\ DOMAIN resp \cap ResultKeys = {}

-----------------------------------------------------------------------------
(* llm.py: _preprocess_image *)

MAX_IMAGE_DIM == 2048

\* widths and heights of decoded images: the smallest sides, sides around
\* MAX_IMAGE_DIM, sides whose scaled length is a whole number (multiples of 561
\* against 2244) and the largest sides
Sides ==
    {s \in 1..MaxSide : \/ s <= 3
                        \/ s % 561 = 0
                        \/ s >= MAX_IMAGE_DIM - 2 /\ s <= MAX_IMAGE_DIM + 2
                        \/ s >= MaxSide - 3}

Max(a, b) == IF a >= b THEN a ELSE b

IsPowerOfTwo(n) == \E k \in 0..12 : n = 2 ^ k

\* int(x * scale) with scale = MAX_IMAGE_DIM / longest computed in binary floating
\* point: the product is truncated toward zero. When x * MAX_IMAGE_DIM / longest is
\* not a whole number the result is its floor. When it is a whole number q, the
\* rounded quotient and product give q or fall just below it, and int() then gives
\* q - 1 (int(2244 * (2048 / 2244)) is 2047); both are outcomes here, except for a
\* power-of-two longest side, where scale and the product are exact
Truncated(x, longest) ==
    LET q == (x * MAX_IMAGE_DIM) \div longest
    IN  IF (x * MAX_IMAGE_DIM) % longest = 0 /\ ~IsPowerOfTwo(longest)
        THEN {q, q - 1}
        ELSE {q}

\* the sizes _preprocess_image can hand on for a decoded image of w by h pixels:
\* the size passed to img.resize, or the size of the image returned as it is; equal
\* sides are truncated to the same length
_preprocess_image(w, h) ==
    LET longest == Max(w, h)
    IN  IF longest > MAX_IMAGE_DIM
        THEN IF w = h
             THEN {<<side, side>> : side \in Truncated(w, longest)}
             ELSE Truncated(w, longest) \X Truncated(h, longest)
        ELSE {<<w, h>>}

PreprocessImage(w, h) ==
    /\ Ready
    /\ \E size \in _preprocess_image(w, h) :
          resp' = [op |-> "_preprocess_image", w |-> w, h |-> h,
                   out_w |-> size[1], out_h |-> size[2]]
    /\ UNCHANGED <<corrections, expenses, uploads, lastUpsert, up, reqs>>

NextImage ==
    \/ \E w \in Sides, h \in Sides : PreprocessImage(w, h)
    \/ Return

SpecImage == Init /\ [][NextImage]_vars

-----------------------------------------------------------------------------
(* C12: image size bound *)

Preprocessed == resp.op = "_preprocess_image"

Abs(n) == IF n >= 0 THEN n ELSE 0 - n

\* the shorter side of the input and the side of the output that came from it
ShortIn == IF resp.w >= resp.h THEN resp.h ELSE resp.w
ShortOut == IF resp.w >= resp.h THEN resp.out_h ELSE resp.out_w
LongOut == IF resp.w >= resp.h THEN resp.out_w ELSE resp.out_h

\* C12: an image whose longest side exceeds 2048 comes out with its longest side
\* within one pixel of 2048, its other side within one pixel of the same scaling,
\* and both sides at least 1 pixel; an image whose longest side is at most 2048
\* keeps its dimensions
C12_SizeBound ==
    Preprocessed =>
        LET longest == Max(resp.w, resp.h)
        IN  IF longest > MAX_IMAGE_DIM
            THEN /\ Abs(LongOut - MAX_IMAGE_DIM) <= 1
                 /\ Abs(ShortOut * longest - ShortIn * MAX_IMAGE_DIM) <= longest
                 /\ resp.out_w >= 1 /\ resp.out_h >= 1
            ELSE resp.out_w = resp.w /\ resp.out_h = resp.h

\* the part of C12 that holds: the longest side, the scaling of the other side and
\* the unchanged small image
C12_ScaledWithinOnePixel ==
    Preprocessed =>
        LET longest == Max(resp.w, resp.h)
        IN  IF longest > MAX_IMAGE_DIM
            THEN /\ Abs(LongOut - MAX_IMAGE_DIM) <= 1
                 /\ Abs(ShortOut * longest - ShortIn * MAX_IMAGE_DIM) <= longest
                 /\ ShortOut <= LongOut
            ELSE resp.out_w = resp.w /\ resp.out_h = resp.h

\* a 1 by 2049 image is resized to 0 by 2048
C12_ZeroSide ==
    /\ Preprocessed
    /\ resp.w = 1 /\ resp.h = MAX_IMAGE_DIM + 1
    /\ resp.out_w = 0 /\ resp.out_h = MAX_IMAGE_DIM

-----------------------------------------------------------------------------
(* The callers of suggest_category next to the handlers that write the tables *)

NextReadOnly ==
    \/ \E m \in FormMerchants : ApiSaveExpense(m, Meals)
    \/ \E id \in 1..MaxExpenses : ApiUpdateCategory(id, Travel, TRUE)
    \/ \E m \in CategorizeMerchants : SuggestCategory(m)
    \/ \E m \in CategorizeMerchants : ApiCategorize(m)
    \/ \E file \in Files : ReceiveUpload(file)
    \/ PreprocessStep
    \/ ExtractStep
    \/ CategorizeStep
    \/ Return

SpecReadOnly == Init /\ [][NextReadOnly]_vars

-----------------------------------------------------------------------------
(* C13: suggest_category is read-only *)

\* a step of suggest_category, of the categorize endpoint or of the upload flow
ReadOnlyStep ==
    \/ resp' # resp /\ resp'.op \in {"suggest_category", "api_categorize", "parse_upload"}
    \/ up' # up

\* C13: a call of suggest_category, whatever tier answers it and also when it raises,
\* a request to the categorize endpoint and every step of the upload flow leave the
\* correction_memory table and the expenses table as they were
C13_ReadOnly ==
    [][ReadOnlyStep => corrections' = corrections /\ expenses' = expenses]_vars

Resolved(op, source) ==
    /\ resp.op = op
    /\ "result" \in DOMAIN resp /\ ~resp.result.raised
    /\ resp.result.source = source
    /\ corrections # {} /\ expenses # <<>>

\* suggest_category answered from a stored correction while both tables hold rows
C13_Witness == Resolved("suggest_category", "correction_memory")

\* the categorize endpoint answered from the remote tier while both tables hold rows
C13_WitnessRemote == Resolved("api_categorize", "llm")

\* an upload was answered from a stored correction while both tables hold rows
C13_WitnessUpload ==
    /\ resp.op = "parse_upload" /\ resp.status = 200
    /\ resp.category_source = "correction_memory"
    /\ corrections # {} /\ expenses # <<>>

-----------------------------------------------------------------------------
(* routers/expenses.py: api_update_category statement by statement, for several  *)
(* requests in flight.  Each database call opens its own connection and commits  *)
(* on leaving it, so the UPDATE, the SELECT and the upsert are three             *)
(* transactions.                                                                 *)

RequestIds == {1, 2}
RequestCategories == {Meals, Travel, Bogus}

\* between its UPDATE and its return
Running(r) == r.pc \in {"updated", "read"}

\* variant: the handler is a plain def, run by the framework on a pool of threads,
\* and a request proceeds whatever the others are doing
Scheduled_threads(i) == TRUE

\* the handler is a coroutine (async def) with no await between its statements,
\* served by the one event loop of the one uvicorn process: once its body has
\* started, no other handler runs until it has returned
Scheduled(i) == \A j \in DOMAIN reqs \ {i} : ~Running(reqs[j])

Done(r, status) == [r EXCEPT !.pc = "done", !.status = status]

\* a PATCH /api/expenses/{expense_id}/category request reaches the server
ReceiveUpdate(expense_id, category, remember) ==
    /\ Len(reqs) < MaxRequests
    /\ reqs' = Append(reqs, [expense_id |-> expense_id, category |-> category,
                             remember |-> remember, pc |-> "received", status |-> 0])
    /\ UNCHANGED <<corrections, expenses, uploads, lastUpsert, resp, up>>

\* the category test, update_expense_category and the 404 test
UpdateStep(i) ==
    /\ i \in DOMAIN reqs
    /\ reqs[i].pc = "received"
    /\ Scheduled(i)
    /\ LET r == reqs[i]
       IN  IF r.category \notin DOMAIN CATEGORY_LINE
           THEN /\ reqs' = [reqs EXCEPT ![i] = Done(r, 422)]
                /\ UNCHANGED expenses
           ELSE LET upd == update_expense_category(expenses, r.expense_id, r.category,
                                                   CATEGORY_LINE[r.category])
                IN  /\ expenses' = upd.rows
                    /\ reqs' = [reqs EXCEPT ![i] =
                                  IF ~upd.updated THEN Done(r, 404)
                                  ELSE IF r.remember THEN [r EXCEPT !.pc = "updated"]
                                  ELSE Done(r, 200)]
    /\ UNCHANGED <<corrections, uploads, lastUpsert, resp, up>>

\* SELECT merchant FROM expenses WHERE id = ?
ReadStep(i) ==
    /\ i \in DOMAIN reqs
    /\ reqs[i].pc = "updated"
    /\ Scheduled(i)
    /\ LET r == reqs[i]
       IN  reqs' = [reqs EXCEPT ![i] =
                      IF r.expense_id \in DOMAIN expenses
                      THEN [pc |-> "read", merchant |-> expenses[r.expense_id].merchant] @@ r
                      ELSE Done(r, 200)]
    /\ UNCHANGED <<corrections, expenses, uploads, lastUpsert, resp, up>>

\* upsert_correction(row["merchant"], body.category) and the JSON reply
UpsertStep(i) ==
    /\ i \in DOMAIN reqs
    /\ reqs[i].pc = "read"
    /\ Scheduled(i)
    /\ LET r == reqs[i]
       IN  /\ corrections' = upsert_correction(corrections, r.merchant, r.category)
           /\ lastUpsert' = RecordUpsert(lastUpsert, r.merchant, r.category)
           /\ reqs' = [reqs EXCEPT ![i] = Done(r, 200)]
    /\ UNCHANGED <<expenses, uploads, resp, up>>

\* POST /api/expenses for the one expense the update requests are about; like every
\* handler it runs when no other handler is between its statements
SaveFirstExpense(merchant) ==
    /\ expenses = <<>>
    /\ \A j \in DOMAIN reqs : ~Running(reqs[j])
    /\ ApiSaveExpense(merchant, Supplies)

NextConcurrent ==
    \/ \E m \in FormMerchants : SaveFirstExpense(m)
    \/ Return
    \/ \E id \in RequestIds, c \in RequestCategories, remember \in BOOLEAN :
          ReceiveUpdate(id, c, remember)
    \/ \E i \in 1..MaxRequests : UpdateStep(i)
    \/ \E i \in 1..MaxRequests : ReadStep(i)
    \/ \E i \in 1..MaxRequests : UpsertStep(i)

SpecConcurrent == Init /\ [][NextConcurrent]_vars

-----------------------------------------------------------------------------
(* C14: expense / correction agreement under concurrent edits *)

AllDone == reqs # <<>> /\ \A i \in DOMAIN reqs : reqs[i].pc = "done"

\* the requests that changed expense e
Changed(e) == {i \in DOMAIN reqs : reqs[i].expense_id = e /\ reqs[i].status = 200}

\* a step of request i
StepOf(i) == i \in DOMAIN reqs /\ reqs'[i] # reqs[i]

\* request i is one that must not touch the Correction Store
Silent(i) == ~reqs[i].remember \/ reqs'[i].status \in {422, 404}

C14_WitnessSilent ==
    /\ AllDone /\ Len(reqs) = 2
    /\ reqs[1].status = 404 /\ reqs[1].remember
    /\ reqs[2].status = 200 /\ ~reqs[2].remember
    /\ corrections = {}

=============================================================================
